---- MODULE Spec2Model ----
(***************************************************************************)
(* Model of the MCP demo server: the tool registry, the three tools        *)
(* (calculator, file_operations, system_info), BaseTool.validateArguments, *)
(* the usage recorder (GoogleADKIntegration) and the four request handlers *)
(* installed by MCPServerDemo.setupHandlers.                               *)
(*                                                                         *)
(* JavaScript values are tagged records [t |-> typeTag, v |-> payload].    *)
(* Numbers are exact fractions <<numerator, denominator>>.  Objects are    *)
(* sequences of <<key, value>> entries in insertion order.  Strings are    *)
(* TLA+ strings, examined character by character.                          *)
(***************************************************************************)
EXTENDS Integers, Sequences, FiniteSets, TLC

\* ------------------------------------------------------------------------
\* Bounds of the model
\* ------------------------------------------------------------------------

\* Longest path string drawn for validatePath / join.
MaxPathLen == 3

\* Largest operand magnitude drawn for the calculator.
MaxOperand == 2

\* Capacity of the usage log array (stands for the JavaScript array limit).
MaxLogs == 2

\* Number of clock ticks (os.uptime / Date advance) explored.
MaxUptime == 1

\* Handlers that may be suspended at once
MaxInFlight == 2

\* ------------------------------------------------------------------------
\* JavaScript values
\* ------------------------------------------------------------------------

Abs(n) == IF n < 0 THEN -n ELSE n

RECURSIVE Gcd(_, _)
Gcd(m, n) == IF n = 0 THEN m ELSE Gcd(n, m % n)

\* A number n/d in lowest terms with a positive denominator.  A zero
\* denominator gives the non-finite doubles: <<1, 0>> is Infinity,
\* <<-1, 0>> is -Infinity and <<0, 0>> is NaN.
Frac(n, d) ==
  LET g == IF n = 0 /\ d = 0 THEN 1 ELSE Gcd(Abs(n), Abs(d))
      s == IF d < 0 THEN -1 ELSE 1
  IN  <<(s * n) \div g, (s * d) \div g>>

Num(n) == [t |-> "number", v |-> <<n, 1>>]
Str(s) == [t |-> "string", v |-> s]
Bool(b) == [t |-> "boolean", v |-> b]
Null == [t |-> "null", v |-> 0]
Undefined == [t |-> "undefined", v |-> 0]
Date(ms) == [t |-> "date", v |-> ms]
Obj(entries) == [t |-> "object", v |-> entries]
Arr(entries) == [t |-> "array", v |-> entries]

\* typeof x
TypeOf(x) ==
  CASE x.t = "number" -> "number"
    [] x.t = "string" -> "string"
    [] x.t = "boolean" -> "boolean"
    [] x.t = "undefined" -> "undefined"
    [] OTHER -> "object"

\* ToBoolean(x), as used by !x
Truthy(x) ==
  CASE x.t = "undefined" -> FALSE
    [] x.t = "null" -> FALSE
    [] x.t = "boolean" -> x.v
    [] x.t = "number" -> x.v[1] # 0
    [] x.t = "string" -> x.v # ""
    [] OTHER -> TRUE

\* key in obj, for an object or array value
HasKey(obj, key) == \E i \in 1..Len(obj.v) : obj.v[i][1] = key

\* obj[key], undefined when the key is absent
Get(obj, key) ==
  IF HasKey(obj, key)
    THEN obj.v[CHOOSE i \in 1..Len(obj.v) : obj.v[i][1] = key][2]
    ELSE Undefined

\* ------------------------------------------------------------------------
\* Strings and POSIX path functions
\* ------------------------------------------------------------------------

includes(s, sub) ==
  \E i \in 1..(Len(s) - Len(sub) + 1) : SubSeq(s, i, i + Len(sub) - 1) = sub

startsWith(s, pre) == Len(s) >= Len(pre) /\ SubSeq(s, 1, Len(pre)) = pre

endsWith(s, suf) ==
  Len(s) >= Len(suf) /\ SubSeq(s, Len(s) - Len(suf) + 1, Len(s)) = suf

\* s.split("/")
RECURSIVE SplitFrom(_, _, _)
SplitFrom(s, i, cur) ==
  IF i > Len(s) THEN <<cur>>
  ELSE IF SubSeq(s, i, i) = "/" THEN <<cur>> \o SplitFrom(s, i + 1, "")
  ELSE SplitFrom(s, i + 1, cur \o SubSeq(s, i, i))

Split(s) == SplitFrom(s, 1, "")

\* segs.join("/")
RECURSIVE JoinSegs(_)
JoinSegs(segs) ==
  IF Len(segs) = 0 THEN ""
  ELSE IF Len(segs) = 1 THEN segs[1]
  ELSE segs[1] \o "/" \o JoinSegs(Tail(segs))

\* path.posix normalizeString: drop "" and ".", resolve ".." against the
\* segments collected so far
RECURSIVE NormSegs(_, _, _)
NormSegs(segs, acc, allowAboveRoot) ==
  IF Len(segs) = 0 THEN acc
  ELSE LET s == Head(segs)
           r == Tail(segs)
       IN  IF s = "" \/ s = "." THEN NormSegs(r, acc, allowAboveRoot)
           ELSE IF s = ".."
             THEN IF Len(acc) > 0 /\ acc[Len(acc)] # ".."
                    THEN NormSegs(r, SubSeq(acc, 1, Len(acc) - 1), allowAboveRoot)
                    ELSE IF allowAboveRoot
                           THEN NormSegs(r, Append(acc, ".."), allowAboveRoot)
                           ELSE NormSegs(r, acc, allowAboveRoot)
           ELSE NormSegs(r, Append(acc, s), allowAboveRoot)

\* path.posix.normalize
normalize(p) ==
  IF Len(p) = 0 THEN "."
  ELSE LET isAbsolute == startsWith(p, "/")
           trailingSeparator == endsWith(p, "/")
           body == JoinSegs(NormSegs(Split(p), <<>>, ~isAbsolute))
       IN  IF Len(body) = 0
             THEN IF isAbsolute THEN "/"
                  ELSE IF trailingSeparator THEN "./" ELSE "."
             ELSE (IF isAbsolute THEN "/" ELSE "")
                    \o body \o (IF trailingSeparator THEN "/" ELSE "")

\* path.posix.join(a, b): empty arguments are skipped
join(a, b) ==
  LET joined == IF Len(a) = 0 THEN b
                ELSE IF Len(b) = 0 THEN a
                ELSE a \o "/" \o b
  IN  IF Len(joined) = 0 THEN "." ELSE normalize(joined)

\* ------------------------------------------------------------------------
\* Outcome of a call that may throw
\* ------------------------------------------------------------------------

Returned(val) == [threw |-> FALSE, value |-> val]

\* new Error(msg): an Error without a code property (code "" stands for
\* undefined)
Threw(msg) == [threw |-> TRUE, message |-> msg, code |-> ""]

\* A rejection of an fs/promises call: an Error carrying a Node error code
ThrewCode(code, msg) == [threw |-> TRUE, message |-> msg, code |-> code]

\* ------------------------------------------------------------------------
\* Tool definitions (input schemas)
\* ------------------------------------------------------------------------

CalculatorSchema ==
  [type |-> "object",
   properties |-> [operation |-> [type |-> "string",
                                  enum |-> <<"add", "subtract", "multiply", "divide">>],
                   a |-> [type |-> "number"],
                   b |-> [type |-> "number"]],
   required |-> <<"operation", "a", "b">>]

FileOperationsSchema ==
  [type |-> "object",
   properties |-> [operation |-> [type |-> "string",
                                  enum |-> <<"read", "write", "list", "info">>],
                   path |-> [type |-> "string"],
                   content |-> [type |-> "string"]],
   required |-> <<"operation", "path">>]

SystemInfoSchema ==
  [type |-> "object",
   properties |-> [detail |-> [type |-> "string", enum |-> <<"basic", "full">>]],
   required |-> <<>>]

\* ------------------------------------------------------------------------
\* BaseTool.validateArguments
\* ------------------------------------------------------------------------

RECURSIVE CheckRequired(_, _, _)
CheckRequired(required, i, args) ==
  IF i > Len(required) THEN Returned(TRUE)
  ELSE IF ~HasKey(args, required[i])
    THEN Threw("Missing required argument: " \o required[i])
    ELSE CheckRequired(required, i + 1, args)

\* Variant of CheckType that also enforces the enum of a string property
CheckTypeEnforcesEnum(properties, key, value) ==
  IF key \notin DOMAIN properties THEN Returned(TRUE)
  ELSE LET expectedType == properties[key].type
           actualType == TypeOf(value)
       IN  IF expectedType = "number" /\ actualType # "number"
             THEN Threw("Argument \"" \o key \o "\" must be a number")
           ELSE IF expectedType = "string" /\ actualType # "string"
             THEN Threw("Argument \"" \o key \o "\" must be a string")
           ELSE IF expectedType = "boolean" /\ actualType # "boolean"
             THEN Threw("Argument \"" \o key \o "\" must be a boolean")
           ELSE IF /\ "enum" \in DOMAIN properties[key]
                   /\ \A i \in 1..Len(properties[key].enum) :
                        properties[key].enum[i] # value.v
             THEN Threw("Argument \"" \o key \o "\" is not an allowed value")
           ELSE Returned(TRUE)

\* Variant of CheckType without the boolean comparison
CheckTypeNoBoolean(properties, key, value) ==
  IF key \notin DOMAIN properties THEN Returned(TRUE)
  ELSE LET expectedType == properties[key].type
           actualType == TypeOf(value)
       IN  IF expectedType = "number" /\ actualType # "number"
             THEN Threw("Argument \"" \o key \o "\" must be a number")
           ELSE IF expectedType = "string" /\ actualType # "string"
             THEN Threw("Argument \"" \o key \o "\" must be a string")
           ELSE Returned(TRUE)

\* The three typeof comparisons applied to one entry
CheckType(properties, key, value) ==
  IF key \notin DOMAIN properties THEN Returned(TRUE)
  ELSE LET expectedType == properties[key].type
           actualType == TypeOf(value)
       IN  IF expectedType = "number" /\ actualType # "number"
             THEN Threw("Argument \"" \o key \o "\" must be a number")
           ELSE IF expectedType = "string" /\ actualType # "string"
             THEN Threw("Argument \"" \o key \o "\" must be a string")
           ELSE IF expectedType = "boolean" /\ actualType # "boolean"
             THEN Threw("Argument \"" \o key \o "\" must be a boolean")
           ELSE Returned(TRUE)

RECURSIVE CheckTypes(_, _, _)
CheckTypes(properties, i, args) ==
  IF i > Len(args.v) THEN Returned(TRUE)
  ELSE LET r == CheckType(properties, args.v[i][1], args.v[i][2])
       IN  IF r.threw THEN r ELSE CheckTypes(properties, i + 1, args)

validateArguments(schema, args) ==
  IF ~Truthy(args) \/ TypeOf(args) # "object"
    THEN Threw("Arguments must be an object")
  ELSE LET req == CheckRequired(schema.required, 1, args)
       IN  IF req.threw THEN req
           ELSE CheckTypes(schema.properties, 1, args)

\* ------------------------------------------------------------------------
\* Template-literal interpolation `${x}`
\* ------------------------------------------------------------------------

JsString(x) ==
  CASE x.t = "string" -> x.v
    [] x.t = "undefined" -> "undefined"
    [] x.t = "null" -> "null"
    [] x.t = "boolean" -> (IF x.v THEN "true" ELSE "false")
    [] x.t = "number" ->
         (IF x.v[2] = 1 THEN ToString(x.v[1])
          ELSE ToString(x.v[1]) \o "/" \o ToString(x.v[2]))
    [] OTHER -> "[object Object]"

\* ------------------------------------------------------------------------
\* CalculatorTool.execute
\* ------------------------------------------------------------------------

NumAdd(a, b) ==
  [t |-> "number", v |-> Frac(a.v[1] * b.v[2] + b.v[1] * a.v[2], a.v[2] * b.v[2])]

\* Variant of NumSub with the operands exchanged
NumSubSwapped(a, b) ==
  [t |-> "number", v |-> Frac(b.v[1] * a.v[2] - a.v[1] * b.v[2], a.v[2] * b.v[2])]

NumSub(a, b) ==
  [t |-> "number", v |-> Frac(a.v[1] * b.v[2] - b.v[1] * a.v[2], a.v[2] * b.v[2])]

NumMul(a, b) ==
  [t |-> "number", v |-> Frac(a.v[1] * b.v[1], a.v[2] * b.v[2])]

NumDiv(a, b) ==
  [t |-> "number", v |-> Frac(a.v[1] * b.v[2], a.v[2] * b.v[1])]

\* Variant of IsZero that never holds (the guard is left out)
IsZeroNever(b) == FALSE

\* b === 0
IsZero(b) == b.t = "number" /\ b.v[1] = 0

CalcPayload(operation, a, b, result) ==
  [success |-> TRUE,
   data |-> [operation |-> operation,
             operands |-> [a |-> a, b |-> b],
             result |-> result]]

CalculatorExecute(args) ==
  LET operation == Get(args, "operation")
      a == Get(args, "a")
      b == Get(args, "b")
  IN  CASE operation = Str("add") ->
             Returned(CalcPayload(operation, a, b, NumAdd(a, b)))
        [] operation = Str("subtract") ->
             Returned(CalcPayload(operation, a, b, NumSub(a, b)))
        [] operation = Str("multiply") ->
             Returned(CalcPayload(operation, a, b, NumMul(a, b)))
        [] operation = Str("divide") ->
             IF IsZero(b)
               THEN Threw("Division by zero is not allowed")
               ELSE Returned(CalcPayload(operation, a, b, NumDiv(a, b)))
        [] OTHER -> Threw("Unknown operation: " \o JsString(operation))

\* ------------------------------------------------------------------------
\* The host: operating-system readings and the filesystem
\* ------------------------------------------------------------------------

\* os.totalmem() in bytes
TotalMemBytes == 4194304

\* os.freemem() in bytes
FreeMemBytes == 1572864

\* os.cpus()
CpuList == <<[model |-> "cpu0", speed |-> 2400], [model |-> "cpu0", speed |-> 2400]>>

\* process.cwd() at startup
Cwd == "/ws"

FileNode(content, birth, mod) ==
  [kind |-> "file", content |-> content, birthtime |-> birth, mtime |-> mod]

DirNode == [kind |-> "dir", content |-> "", birthtime |-> 0, mtime |-> 0]

\* The filesystem when the server starts: path |-> node
InitialFs ==
  [p \in {"/", "/ws", "/ws/a", "/ws/a/a", "/etc", "/etc/passwd"} |->
     CASE p = "/ws/a/a" -> FileNode("hi", 0, 0)
       [] p = "/etc/passwd" -> FileNode("root", 0, 0)
       [] OTHER -> DirNode]

\* A path without its trailing separators ("/" stays "/")
RECURSIVE StripSlash(_)
StripSlash(p) ==
  IF Len(p) > 1 /\ endsWith(p, "/") THEN StripSlash(SubSeq(p, 1, Len(p) - 1)) ELSE p

\* Absolute path made of the first n segments of segs
PrefixPath(segs, n) == "/" \o JoinSegs(SubSeq(segs, 1, n))

\* Path lookup as the kernel does it: every ancestor must be a directory,
\* and a trailing separator requires the target to be a directory.
Resolve(fs, target, syscall) ==
  LET base == StripSlash(target)
      segs == NormSegs(Split(base), <<>>, FALSE)
      where == ", " \o syscall \o " '" \o target \o "'"
      enoent == ThrewCode("ENOENT", "ENOENT: no such file or directory" \o where)
      enotdir == ThrewCode("ENOTDIR", "ENOTDIR: not a directory" \o where)
  IN  IF \E n \in 0..(Len(segs) - 1) :
            /\ PrefixPath(segs, n) \in DOMAIN fs
            /\ fs[PrefixPath(segs, n)].kind = "file"
            /\ \A m \in 0..(n - 1) : PrefixPath(segs, m) \in DOMAIN fs
        THEN enotdir
      ELSE IF \E n \in 0..Len(segs) : PrefixPath(segs, n) \notin DOMAIN fs
        THEN enoent
      ELSE IF endsWith(target, "/") /\ fs[base].kind = "file"
        THEN enotdir
      ELSE Returned(fs[base])

\* fs/promises readFile(target, 'utf-8')
readFile(fs, target) ==
  LET r == Resolve(fs, target, "open")
  IN  IF r.threw THEN r
      ELSE IF r.value.kind = "dir"
        THEN ThrewCode("EISDIR", "EISDIR: illegal operation on a directory, read")
        ELSE Returned(r.value.content)

\* fs/promises stat(target)
stat(fs, target) ==
  LET r == Resolve(fs, target, "stat")
  IN  IF r.threw THEN r
      ELSE Returned([isDirectory |-> r.value.kind = "dir",
                     size |-> IF r.value.kind = "dir" THEN 4096
                              ELSE Len(r.value.content),
                     birthtime |-> r.value.birthtime,
                     mtime |-> r.value.mtime])

\* Names of the direct children of directory dir
Children(fs, dir) ==
  LET segs == NormSegs(Split(dir), <<>>, FALSE)
  IN  {s \in {NormSegs(Split(p), <<>>, FALSE) : p \in DOMAIN fs} :
         Len(s) = Len(segs) + 1 /\ SubSeq(s, 1, Len(segs)) = segs}

\* fs/promises readdir(target): the set of entry names
readdir(fs, target) ==
  LET r == Resolve(fs, target, "scandir")
  IN  IF r.threw THEN r
      ELSE IF r.value.kind = "file"
        THEN ThrewCode("ENOTDIR", "ENOTDIR: not a directory, scandir '" \o target \o "'")
        ELSE Returned({s[Len(s)] : s \in Children(fs, StripSlash(target))})

\* fs/promises writeFile(target, content, 'utf-8'): the outcome and the
\* filesystem afterwards
writeFile(fs, target, content, now) ==
  LET base == StripSlash(target)
      segs == NormSegs(Split(base), <<>>, FALSE)
      parent == PrefixPath(segs, Len(segs) - 1)
      pr == Resolve(fs, parent, "open")
      where == ", open '" \o target \o "'"
  IN  IF Len(segs) = 0
        THEN [out |-> ThrewCode("EISDIR", "EISDIR: illegal operation on a directory" \o where),
              fs |-> fs]
      ELSE IF pr.threw
        THEN [out |-> ThrewCode(pr.code,
                        (IF pr.code = "ENOENT"
                           THEN "ENOENT: no such file or directory"
                           ELSE "ENOTDIR: not a directory") \o where),
              fs |-> fs]
      ELSE IF pr.value.kind = "file"
        THEN [out |-> ThrewCode("ENOTDIR", "ENOTDIR: not a directory" \o where), fs |-> fs]
      ELSE IF base \in DOMAIN fs /\ fs[base].kind = "dir"
        THEN [out |-> ThrewCode("EISDIR", "EISDIR: illegal operation on a directory" \o where),
              fs |-> fs]
      ELSE IF endsWith(target, "/")
        THEN [out |-> ThrewCode(IF base \in DOMAIN fs THEN "ENOTDIR" ELSE "EISDIR",
                        (IF base \in DOMAIN fs
                           THEN "ENOTDIR: not a directory"
                           ELSE "EISDIR: illegal operation on a directory") \o where),
              fs |-> fs]
      ELSE [out |-> Returned(TRUE),
            fs |-> [p \in DOMAIN fs \cup {base} |->
                      IF p = base
                        THEN FileNode(content,
                                      IF base \in DOMAIN fs THEN fs[base].birthtime ELSE now,
                                      now)
                        ELSE fs[p]]]

\* ------------------------------------------------------------------------
\* FileOperationsTool
\* ------------------------------------------------------------------------

\* Variant of validatePath without the absolute-path test
validatePathNoAbsolute(workspaceRoot, path) ==
  IF includes(path, "..")
    THEN Threw("Path traversal (..) is not allowed")
  ELSE Returned(join(workspaceRoot, path))

\* Variant of validatePath without the traversal test
validatePathNoTraversal(workspaceRoot, path) ==
  IF startsWith(path, "/")
    THEN Threw("Absolute paths are not allowed")
  ELSE Returned(join(workspaceRoot, path))

\* validatePath: the resolved path, or the rejection
validatePath(workspaceRoot, path) ==
  IF includes(path, "..")
    THEN Threw("Path traversal (..) is not allowed")
  ELSE IF startsWith(path, "/")
    THEN Threw("Absolute paths are not allowed")
  ELSE Returned(join(workspaceRoot, path))

Access(op, target) == [op |-> op, target |-> target]

\* One result of execute: its outcome, the filesystem afterwards and the
\* filesystem calls it made
ExecResult(out, fs, trace) == [out |-> out, fs |-> fs, trace |-> trace]

\* case 'read'
FileRead(fs, path, safePath) ==
  LET r == readFile(fs, safePath)
  IN  ExecResult(
        IF r.threw THEN r
        ELSE Returned([success |-> TRUE,
                       data |-> [path |-> path,
                                 content |-> Str(r.value),
                                 size |-> Num(Len(r.value))]]),
        fs, {Access("readFile", safePath)})

\* Variant of case 'write' without the check of the content
FileWriteUnchecked(fs, path, safePath, content, now) ==
  LET w == writeFile(fs, safePath, JsString(content), now)
  IN  ExecResult(
        IF w.out.threw THEN w.out
        ELSE Returned([success |-> TRUE,
                       data |-> [path |-> path,
                                 message |-> Str("File written successfully")]]),
        w.fs, {Access("writeFile", safePath)})

\* case 'write'
FileWrite(fs, path, safePath, content, now) ==
  IF ~Truthy(content)
    THEN ExecResult(Threw("Content is required for write operation"), fs, {})
  ELSE LET w == writeFile(fs, safePath, content.v, now)
       IN  ExecResult(
             IF w.out.threw THEN w.out
             ELSE Returned([success |-> TRUE,
                            data |-> [path |-> path,
                                      message |-> Str("File written successfully")]]),
             w.fs, {Access("writeFile", safePath)})

\* One element of the entries.map(...) of case 'list'
ListEntry(fs, safePath, entry) ==
  LET st == stat(fs, join(safePath, entry))
  IN  [name |-> Str(entry),
       type |-> Str(IF st.value.isDirectory THEN "directory" ELSE "file"),
       size |-> Num(st.value.size)]

\* case 'list' (the entries are kept as a set: their order is the
\* directory order of the host)
FileList(fs, path, safePath) ==
  LET d == readdir(fs, safePath)
  IN  IF d.threw THEN ExecResult(d, fs, {Access("readdir", safePath)})
      ELSE ExecResult(
             Returned([success |-> TRUE,
                       data |-> [path |-> path,
                                 entries |-> {ListEntry(fs, safePath, e) : e \in d.value}]]),
             fs,
             {Access("readdir", safePath)}
               \cup {Access("stat", join(safePath, e)) : e \in d.value})

\* case 'info'
FileInfo(fs, path, safePath) ==
  LET st == stat(fs, safePath)
  IN  ExecResult(
        IF st.threw THEN st
        ELSE Returned([success |-> TRUE,
                       data |-> [path |-> path,
                                 type |-> Str(IF st.value.isDirectory
                                                THEN "directory" ELSE "file"),
                                 size |-> Num(st.value.size),
                                 created |-> Date(st.value.birthtime),
                                 modified |-> Date(st.value.mtime)]]),
        fs, {Access("stat", safePath)})

\* Variant of the catch block that rewords every failure as "not found"
FileCatchRewordsAll(r, path) ==
  IF r.out.threw
    THEN ExecResult(Threw("File or directory not found: " \o JsString(path)), r.fs, r.trace)
    ELSE r

\* The catch block of execute: ENOENT is reworded with the caller's path,
\* every other Error is rethrown as it is
FileCatch(r, path) ==
  IF r.out.threw /\ r.out.code = "ENOENT"
    THEN ExecResult(Threw("File or directory not found: " \o JsString(path)), r.fs, r.trace)
    ELSE r

\* FileOperationsTool.execute
FileOperationsExecute(args, workspaceRoot, fs, now) ==
  LET operation == Get(args, "operation")
      path == Get(args, "path")
      content == Get(args, "content")
      safe == validatePath(workspaceRoot, path.v)
  IN  IF safe.threw THEN ExecResult(safe, fs, {})
      ELSE LET safePath == safe.value
           IN  FileCatch(
                 CASE operation = Str("read") -> FileRead(fs, path, safePath)
                   [] operation = Str("write") ->
                        FileWrite(fs, path, safePath, content, now)
                   [] operation = Str("list") -> FileList(fs, path, safePath)
                   [] operation = Str("info") -> FileInfo(fs, path, safePath)
                   [] OTHER ->
                        ExecResult(Threw("Unknown operation: " \o JsString(operation)),
                                   fs, {}),
                 path)

\* ------------------------------------------------------------------------
\* SystemInfoTool.execute
\* ------------------------------------------------------------------------

\* Math.round(bytes / 1024 / 1024)
RoundMB(bytes) == (2 * bytes + 1048576) \div 2097152

BasicInfo(os) ==
  [platform |-> Str("linux"),
   architecture |-> Str("x64"),
   uptime |-> Num(os.clock),
   memory |-> [total |-> Num(RoundMB(TotalMemBytes)),
               free |-> Num(RoundMB(FreeMemBytes)),
               used |-> Num(RoundMB(TotalMemBytes - FreeMemBytes))]]

FullInfo(os) ==
  [platform |-> BasicInfo(os).platform,
   architecture |-> BasicInfo(os).architecture,
   uptime |-> BasicInfo(os).uptime,
   memory |-> BasicInfo(os).memory,
   cpus |-> [count |-> Num(Len(CpuList)),
             model |-> IF Len(CpuList) > 0 THEN Str(CpuList[1].model) ELSE Undefined,
             speed |-> IF Len(CpuList) > 0 THEN Num(CpuList[1].speed) ELSE Undefined]]

\* SystemInfoTool.execute, were the default of an omitted detail "full"
SystemInfoExecuteDefaultsToFull(args, os) ==
  LET given == Get(args, "detail")
      detail == IF given = Undefined THEN Str("full") ELSE given
  IN  IF detail = Str("full")
        THEN Returned([success |-> TRUE, data |-> FullInfo(os)])
        ELSE Returned([success |-> TRUE, data |-> BasicInfo(os)])

SystemInfoExecute(args, os) ==
  LET given == Get(args, "detail")
      detail == IF given = Undefined THEN Str("basic") ELSE given
  IN  IF detail = Str("full")
        THEN Returned([success |-> TRUE, data |-> FullInfo(os)])
        ELSE Returned([success |-> TRUE, data |-> BasicInfo(os)])

\* ------------------------------------------------------------------------
\* GoogleADKIntegration (the usage recorder)
\* ------------------------------------------------------------------------

\* Values the GOOGLE_ADK_ENABLED variable may hold (Undefined: not set)
EnvValues == {Undefined, Str("true"), Str("false"), Str("TRUE"), Str("1"), Str("")}

\* constructor: this.enabled = process.env.GOOGLE_ADK_ENABLED === 'true'
ADKEnabled(env) == env = Str("true")

\* Variant of logToolUsage that drops the oldest entry once the array is full
logToolUsageRing(enabled, logs, toolName, arguments, result, now) ==
  [out |-> Returned(TRUE),
   logs |-> Append(IF Len(logs) >= MaxLogs THEN Tail(logs) ELSE logs,
                   [toolName |-> toolName,
                    arguments |-> arguments,
                    result |-> result,
                    timestamp |-> Date(now)])]

\* Variant of logToolUsage that records only while the integration is enabled
logToolUsageWhenEnabled(enabled, logs, toolName, arguments, result, now) ==
  IF ~enabled THEN [out |-> Returned(TRUE), logs |-> logs]
  ELSE IF Len(logs) >= MaxLogs
    THEN [out |-> Threw("Invalid array length"), logs |-> logs]
    ELSE [out |-> Returned(TRUE),
          logs |-> Append(logs, [toolName |-> toolName,
                                 arguments |-> arguments,
                                 result |-> result,
                                 timestamp |-> Date(now)])]

\* logToolUsage: builds the entry and pushes it; Array.prototype.push
\* throws a RangeError once the array is at its maximum length
logToolUsage(enabled, logs, toolName, arguments, result, now) ==
  IF Len(logs) >= MaxLogs
    THEN [out |-> Threw("Invalid array length"), logs |-> logs]
    ELSE [out |-> Returned(TRUE),
          logs |-> Append(logs, [toolName |-> toolName,
                                 arguments |-> arguments,
                                 result |-> result,
                                 timestamp |-> Date(now)])]

\* ------------------------------------------------------------------------
\* MCPServerDemo: registry and request handlers
\* ------------------------------------------------------------------------

ToolDef(name, description, schema) ==
  [name |-> name, description |-> description, inputSchema |-> schema]

\* Variant of registerTools that leaves out the third tool
registerToolsTwo ==
  <<ToolDef("calculator",
            "Perform basic mathematical calculations (add, subtract, multiply, divide)",
            CalculatorSchema),
    ToolDef("file_operations",
            "Read, write, and list files in the current workspace",
            FileOperationsSchema)>>

\* registerTools: the Map in insertion order
registerTools ==
  <<ToolDef("calculator",
            "Perform basic mathematical calculations (add, subtract, multiply, divide)",
            CalculatorSchema),
    ToolDef("file_operations",
            "Read, write, and list files in the current workspace",
            FileOperationsSchema),
    ToolDef("system_info",
            "Get information about the system (platform, CPU, memory, uptime)",
            SystemInfoSchema)>>

\* this.tools.get(name): the index of the entry, 0 when there is none
ToolIndex(tools, name) ==
  IF \E i \in 1..Len(tools) : tools[i].name = name
    THEN CHOOSE i \in 1..Len(tools) : tools[i].name = name
    ELSE 0

\* tool.execute(args), dispatched on the tool instance
ToolExecute(name, args, srv, os) ==
  CASE name = "calculator" -> ExecResult(CalculatorExecute(args), srv.fs, {})
    [] name = "file_operations" ->
         FileOperationsExecute(args, srv.workspaceRoot, srv.fs, os.clock)
    [] OTHER -> ExecResult(SystemInfoExecute(args, os), srv.fs, {})

\* JSON.stringify(value, null, 2)
JSONStringify(value) == [json |-> value]

\* A literal string used as text
Raw(s) == [raw |-> s]

TextContent(text) == <<[type |-> "text", text |-> text]>>

\* Variant of ErrorEnvelope that forgets the isError marker
ErrorEnvelopeNoFlag(message) ==
  [content |-> TextContent(Raw("Error: " \o message))]

\* The error envelope returned by the catch block of the tools/call handler
ErrorEnvelope(message) ==
  [content |-> TextContent(Raw("Error: " \o message)), isError |-> TRUE]

\* What a handler hands back to the SDK when it throws
Rejected(message) == [thrown |-> message]

Step(name, outcome) ==
  [step |-> name, ok |-> ~outcome.threw,
   message |-> IF outcome.threw THEN outcome.message ELSE ""]

\* One run of a handler: the response, the server afterwards, the steps
\* taken and the filesystem calls made
Handled(response, srv, steps, trace) ==
  [response |-> response, srv |-> srv, steps |-> steps, trace |-> trace]

\* ListToolsRequestSchema handler
ListToolsHandler(srv) ==
  Handled([tools |-> srv.tools], srv, <<>>, {})

\* The handler once logToolUsage has run with outcome l: the success
\* content, or the error envelope when the recorder threw
Recorded(afterExec, executed, e, l) ==
  IF l.out.threw
    THEN Handled(ErrorEnvelope(l.out.message), [afterExec EXCEPT !.logs = l.logs],
                 executed \o <<Step("record", l.out)>>, e.trace)
    ELSE Handled([content |-> TextContent(JSONStringify(e.out.value))],
                 [afterExec EXCEPT !.logs = l.logs],
                 executed \o <<Step("record", l.out)>>, e.trace)

\* Variant of Executed that notifies the recorder of failed executions too
ExecutedAlwaysRecords(srv, os, name, args, validated, e) ==
  IF e.out.threw
    THEN Handled(ErrorEnvelope(e.out.message),
                 [srv EXCEPT !.fs = e.fs,
                             !.logs = logToolUsage(srv.enabled, srv.logs, name, args,
                                                   Undefined, os.clock).logs],
                 validated \o <<Step("execute", e.out),
                                Step("record", logToolUsage(srv.enabled, srv.logs, name,
                                                            args, Undefined, os.clock).out)>>,
                 e.trace)
    ELSE Recorded([srv EXCEPT !.fs = e.fs],
                  validated \o <<Step("execute", e.out)>>,
                  e,
                  logToolUsage(srv.enabled, srv.logs, name, args, e.out.value, os.clock))

\* The handler once execute has run with result e
Executed(srv, os, name, args, validated, e) ==
  IF e.out.threw
    THEN Handled(ErrorEnvelope(e.out.message), [srv EXCEPT !.fs = e.fs],
                 validated \o <<Step("execute", e.out)>>, e.trace)
    ELSE Recorded([srv EXCEPT !.fs = e.fs],
                  validated \o <<Step("execute", e.out)>>,
                  e,
                  logToolUsage(srv.enabled, srv.logs, name, args, e.out.value, os.clock))

\* The handler once validateArguments has run with outcome v
Validated(srv, os, name, args, v) ==
  IF v.threw
    THEN Handled(ErrorEnvelope(v.message), srv,
                 <<Step("lookup", Returned(TRUE)), Step("validate", v)>>, {})
    ELSE Executed(srv, os, name, args,
                  <<Step("lookup", Returned(TRUE)), Step("validate", v)>>,
                  ToolExecute(name, args, srv, os))

\* CallToolRequestSchema handler
CallToolHandler(srv, os, name, args) ==
  IF ToolIndex(srv.tools, name) = 0
    THEN Handled(Rejected("Tool \"" \o name \o "\" not found"), srv,
                 <<Step("lookup", Threw("Tool \"" \o name \o "\" not found"))>>, {})
    ELSE Validated(srv, os, name, args,
                   validateArguments(srv.tools[ToolIndex(srv.tools, name)].inputSchema,
                                     args))

\* The one resource
SystemInfoUri == "file:///system-info"

\* ListResourcesRequestSchema handler
ListResourcesHandler(srv) ==
  Handled([resources |-> <<[uri |-> SystemInfoUri,
                            name |-> "System Information",
                            description |-> "Current system information",
                            mimeType |-> "application/json"]>>],
          srv, <<>>, {})

\* Variant of ReadResourceHandler that serves the content computed at start-up
ReadResourceHandlerStored(srv, os, uri) ==
  IF uri = SystemInfoUri
    THEN Handled([contents |-> <<[uri |-> uri,
                                  mimeType |-> "application/json",
                                  text |-> JSONStringify(
                                             SystemInfoExecute(Obj(<<>>),
                                                               [clock |-> 0]).value)]>>],
                 srv, <<>>, {})
    ELSE Handled(Rejected("Resource \"" \o uri \o "\" not found"), srv, <<>>, {})

\* ReadResourceRequestSchema handler
ReadResourceHandler(srv, os, uri) ==
  IF uri = SystemInfoUri
    THEN Handled([contents |-> <<[uri |-> uri,
                                  mimeType |-> "application/json",
                                  text |-> JSONStringify(
                                             SystemInfoExecute(Obj(<<>>), os).value)]>>],
                 srv, <<>>, {})
    ELSE Handled(Rejected("Resource \"" \o uri \o "\" not found"), srv, <<>>, {})

\* new MCPServerDemo() in a process whose GOOGLE_ADK_ENABLED is env
NewServer(env) ==
  [tools |-> registerTools,
   workspaceRoot |-> Cwd,
   enabled |-> ADKEnabled(env),
   logs |-> <<>>,
   fs |-> InitialFs]

\* ------------------------------------------------------------------------
\* The process: construction, start(), the SIGINT handler
\* ------------------------------------------------------------------------

\* No process.exit yet
NoExit == 0 - 1

\* The diagnostic the recorder's constructor writes
ADKDiagnostic(env) ==
  IF ADKEnabled(env)
    THEN "[Google ADK] Integration enabled"
    ELSE "[Google ADK] Integration disabled (set GOOGLE_ADK_ENABLED=true to enable)"

\* The process once new MCPServerDemo() has returned
NewProcess(env) ==
  [phase |-> "constructed",
   connect |-> "none",
   transport |-> "none",
   closing |-> FALSE,
   exitCode |-> NoExit,
   stderr |-> <<ADKDiagnostic(env)>>]

\* start() up to its await: the transport is made and connect is called
start(p) == [p EXCEPT !.phase = "connecting", !.connect = "pending"]

\* start() after connect resolved: the diagnostic is written
connected(p) ==
  [p EXCEPT !.phase = "running",
            !.connect = "resolved",
            !.transport = IF p.closing THEN "closing" ELSE "open",
            !.stderr = Append(@, "MCP Server Demo started and ready")]

\* Variant of startFailed that exits with code 0
startFailedExitsZero(p, cause) ==
  [p EXCEPT !.phase = "exited",
            !.connect = "rejected",
            !.exitCode = 0,
            !.stderr = Append(@, "Failed to start server: " \o cause)]

\* connect rejected: the catch of server.start() writes the cause and exits
startFailed(p, cause) ==
  [p EXCEPT !.phase = "exited",
            !.connect = "rejected",
            !.exitCode = 1,
            !.stderr = Append(@, "Failed to start server: " \o cause)]

\* The SIGINT handler up to its await: this.server.close() is called
sigint(p) ==
  [p EXCEPT !.closing = TRUE,
            !.transport = IF @ = "open" THEN "closing" ELSE @]

\* The SIGINT handler after close resolved: process.exit(0)
closed(p) ==
  [p EXCEPT !.phase = "exited", !.transport = "closed", !.exitCode = 0]

\* ------------------------------------------------------------------------
\* Requests
\* ------------------------------------------------------------------------

\* An arguments object with the given operation, path and content, a key
\* being left out when its value is Undefined
RECURSIVE Present(_)
Present(entries) ==
  IF Len(entries) = 0 THEN <<>>
  ELSE IF Head(entries)[2] = Undefined THEN Present(Tail(entries))
  ELSE <<Head(entries)>> \o Present(Tail(entries))

Args(entries) == Obj(Present(entries))

CalcArgs(operation, a, b) ==
  Args(<<<<"operation", operation>>, <<"a", a>>, <<"b", b>>>>)

FileArgs(operation, path, content) ==
  Args(<<<<"operation", operation>>, <<"path", path>>, <<"content", content>>>>)

\* Calculator calls sent to the running server
CalculatorCalls ==
  {CalcArgs(Str("multiply"), Num(6), Num(7)),
   CalcArgs(Str("divide"), Num(6), Num(0)),
   CalcArgs(Str("power"), Num(6), Num(7)),
   CalcArgs(Str("add"), Str("6"), Num(7)),
   CalcArgs(Str("add"), Num(6), Undefined),
   Undefined}

\* Paths outside the workspace sent to the running server
UnsafePaths == {"../etc/passwd", "/etc/passwd"}

FileOperationNames == {"read", "write", "list", "info", "delete"}

\* file_operations calls sent to the running server
FileCalls ==
  {FileArgs(Str(op), Str(p), Undefined) : op \in FileOperationNames, p \in UnsafePaths}
    \cup {FileArgs(Str("write"), Str("a/a"), c) :
            c \in {Undefined, Str(""), Str("x"), Num(1)}}
    \cup {FileArgs(Str("read"), Str("a/a"), Undefined),
          FileArgs(Str("read"), Str("zz"), Undefined),
          FileArgs(Str("read"), Str("."), Undefined),
          FileArgs(Str("read"), Str("./zz"), Undefined),
          FileArgs(Str("read"), Str("a/a/a"), Undefined),
          FileArgs(Str("info"), Str("zz"), Undefined),
          FileArgs(Str("write"), Str("zz/a"), Str("x")),
          FileArgs(Str("info"), Str("a/a/"), Undefined),
          FileArgs(Str("list"), Str("a//zz"), Undefined),
          FileArgs(Str("list"), Str("."), Undefined),
          FileArgs(Str("list"), Str("a/a"), Undefined),
          FileArgs(Str("delete"), Str("a/a"), Undefined),
          FileArgs(Str("write"), Str("../etc/passwd"), Str("x")),
          FileArgs(Str("read"), Str("../etc/passwd"), Num(1)),
          FileArgs(Undefined, Str("a/a"), Undefined),
          FileArgs(Str("read"), Num(1), Undefined)}

\* system_info calls sent to the running server
SystemInfoCalls ==
  {Args(<<>>), Args(<<<<"detail", Num(1)>>>>)}

CallsOf(name) ==
  CASE name = "calculator" -> CalculatorCalls
    [] name = "file_operations" -> FileCalls
    [] name = "system_info" -> SystemInfoCalls
    [] OTHER -> {Args(<<>>)}

RequestedTools == {"calculator", "file_operations", "system_info", "weather"}

RequestedUris == {SystemInfoUri, "file:///etc/passwd"}

\* ------------------------------------------------------------------------
\* State
\* ------------------------------------------------------------------------

VARIABLES
  tools,          \* MCPServerDemo.tools, in insertion order
  workspaceRoot,  \* FileOperationsTool.workspaceRoot
  enabled,        \* GoogleADKIntegration.enabled
  logs,           \* GoogleADKIntegration.logs
  fs,             \* the host filesystem
  os,             \* the host clock
  request,        \* the request being answered
  response,       \* what its handler returned (or threw)
  steps,          \* the steps its handler took
  fsTrace,        \* the filesystem calls its handler made
  twin,           \* a second server process fed the same requests
  probe,          \* one call on a freshly started server
  proc,           \* the process: start-up, transport, exit code, standard error
  calls           \* tools/call handlers suspended at an await

vars == <<tools, workspaceRoot, enabled, logs, fs, os, request, response,
          steps, fsTrace, twin, probe, proc, calls>>

Server ==
  [tools |-> tools, workspaceRoot |-> workspaceRoot, enabled |-> enabled,
   logs |-> logs, fs |-> fs]

NoRequest == [method |-> "none"]
NoResponse == [none |-> TRUE]
NoTwin == [srv |-> NewServer(Undefined), response |-> NoResponse]
NoProbe == [fn |-> "none"]

Idle == request = NoRequest

ToolsCall(name, args) ==
  [method |-> "tools/call", params |-> [name |-> name, arguments |-> args]]

ResourcesRead(uri) == [method |-> "resources/read", params |-> [uri |-> uri]]

\* The server after construction, with the process environment env
Started(env) ==
  /\ tools = NewServer(env).tools
  /\ workspaceRoot = NewServer(env).workspaceRoot
  /\ enabled = NewServer(env).enabled
  /\ logs = NewServer(env).logs
  /\ fs = NewServer(env).fs
  /\ os = [clock |-> 0]
  /\ request = NoRequest
  /\ response = NoResponse
  /\ steps = <<>>
  /\ fsTrace = {}
  /\ proc = NewProcess(env)
  /\ calls = <<>>

\* The server once start() has resolved: the transport is connected
Ready(env) ==
  /\ tools = NewServer(env).tools
  /\ workspaceRoot = NewServer(env).workspaceRoot
  /\ enabled = NewServer(env).enabled
  /\ logs = NewServer(env).logs
  /\ fs = NewServer(env).fs
  /\ os = [clock |-> 0]
  /\ request = NoRequest
  /\ response = NoResponse
  /\ steps = <<>>
  /\ fsTrace = {}
  /\ proc = connected(start(NewProcess(env)))
  /\ calls = <<>>

Init ==
  /\ \E env \in EnvValues : Ready(env)
  /\ twin = NoTwin
  /\ probe = NoProbe

\* The transport hands req to its handler, whose run is h
Serve(req, h) ==
  /\ proc.transport = "open"
  /\ Idle
  /\ request' = req
  /\ response' = h.response
  /\ tools' = h.srv.tools
  /\ workspaceRoot' = h.srv.workspaceRoot
  /\ enabled' = h.srv.enabled
  /\ logs' = h.srv.logs
  /\ fs' = h.srv.fs
  /\ steps' = h.steps
  /\ fsTrace' = h.trace
  /\ UNCHANGED <<proc, calls>>

ListTools ==
  /\ Serve([method |-> "tools/list"], ListToolsHandler(Server))
  /\ UNCHANGED <<os, twin, probe>>

\* A tools/call naming one of names
CallToolAmong(names) ==
  /\ \E name \in names : \E args \in CallsOf(name) :
       Serve(ToolsCall(name, args), CallToolHandler(Server, os, name, args))
  /\ UNCHANGED <<os, twin, probe>>

CallTool == CallToolAmong(RequestedTools)

ListResources ==
  /\ Serve([method |-> "resources/list"], ListResourcesHandler(Server))
  /\ UNCHANGED <<os, twin, probe>>

ReadResource ==
  /\ \E uri \in RequestedUris :
       Serve(ResourcesRead(uri), ReadResourceHandler(Server, os, uri))
  /\ UNCHANGED <<os, twin, probe>>

\* The response has been written to the transport
Deliver ==
  /\ ~Idle
  /\ request' = NoRequest
  /\ response' = NoResponse
  /\ steps' = <<>>
  /\ fsTrace' = {}
  /\ UNCHANGED <<tools, workspaceRoot, enabled, logs, fs, os, twin, probe, proc, calls>>

\* Time passes on the host
Tick ==
  /\ Idle
  /\ os.clock < MaxUptime
  /\ os' = [clock |-> os.clock + 1]
  /\ UNCHANGED <<tools, workspaceRoot, enabled, logs, fs, request, response,
                 steps, fsTrace, twin, probe, proc, calls>>

Next == ListTools \/ CallTool \/ ListResources \/ ReadResource \/ Deliver \/ Tick

Spec == Init /\ [][Next]_vars

\* ------------------------------------------------------------------------
\* The life of the process: start(), the SIGINT handler, process.exit;
\* the requests sent meanwhile are tools/list, calculator calls and the
\* resource requests
\* ------------------------------------------------------------------------

\* Causes with which connect may reject
ConnectFaults == {"stdin is closed"}

\* server.start() is called, right after construction
Start ==
  /\ proc.phase = "constructed"
  /\ proc' = start(proc)
  /\ UNCHANGED <<tools, workspaceRoot, enabled, logs, fs, os, request, response,
                 steps, fsTrace, twin, probe, calls>>

\* connect resolves and start() goes on
Connected ==
  /\ proc.phase = "connecting"
  /\ proc' = connected(proc)
  /\ UNCHANGED <<tools, workspaceRoot, enabled, logs, fs, os, request, response,
                 steps, fsTrace, twin, probe, calls>>

\* connect rejects and the catch of server.start() runs
ConnectFailed ==
  /\ proc.phase = "connecting"
  /\ \E cause \in ConnectFaults : proc' = startFailed(proc, cause)
  /\ UNCHANGED <<tools, workspaceRoot, enabled, logs, fs, os, request, response,
                 steps, fsTrace, twin, probe, calls>>

\* The interrupt signal arrives and its handler calls this.server.close()
Sigint ==
  /\ proc.phase \in {"connecting", "running"}
  /\ ~proc.closing
  /\ proc' = sigint(proc)
  /\ UNCHANGED <<tools, workspaceRoot, enabled, logs, fs, os, request, response,
                 steps, fsTrace, twin, probe, calls>>

\* close resolves and the handler calls process.exit(0)
Closed ==
  /\ proc.phase # "exited"
  /\ proc.closing
  /\ proc' = closed(proc)
  /\ UNCHANGED <<tools, workspaceRoot, enabled, logs, fs, os, request, response,
                 steps, fsTrace, twin, probe, calls>>

CallCalculator == CallToolAmong({"calculator"})

InitLife ==
  /\ \E env \in EnvValues : Started(env)
  /\ twin = NoTwin
  /\ probe = NoProbe

NextLife ==
  \/ Start \/ Connected \/ ConnectFailed \/ Sigint \/ Closed
  \/ ListTools \/ CallCalculator \/ ListResources \/ ReadResource \/ Deliver \/ Tick

SpecLife == InitLife /\ [][NextLife]_vars

\* ------------------------------------------------------------------------
\* The tools/call handler as the async function it is: a run that awaits a
\* filesystem call is suspended there and goes on when the call completes;
\* a run that awaits none answers in the turn in which it started. The
\* handler holds no lock, queue or in-flight flag, so nothing keeps a
\* request from starting it while another run is suspended
\* ------------------------------------------------------------------------

\* tools/call requests sent to the server
AsyncCalls ==
  {ToolsCall("calculator", CalcArgs(Str("multiply"), Num(6), Num(7))),
   ToolsCall("file_operations", FileArgs(Str("read"), Str("a/a"), Undefined)),
   ToolsCall("file_operations", FileArgs(Str("read"), Str("zz"), Undefined)),
   ToolsCall("file_operations", FileArgs(Str("write"), Str("a/a"), Str("x"))),
   ToolsCall("file_operations", FileArgs(Str("read"), Str("../etc/passwd"), Undefined)),
   ToolsCall("weather", Args(<<>>))}

\* The run of the handler on req in the present state
RunOf(req) == CallToolHandler(Server, os, req.params.name, req.params.arguments)

\* The handler returns (or throws): its response goes to the SDK
Finish(req, h) ==
  /\ request' = req
  /\ response' = h.response
  /\ tools' = h.srv.tools
  /\ workspaceRoot' = h.srv.workspaceRoot
  /\ enabled' = h.srv.enabled
  /\ logs' = h.srv.logs
  /\ fs' = h.srv.fs
  /\ steps' = h.steps
  /\ fsTrace' = h.trace

\* A request arrives whose run awaits no filesystem call
AsyncAnswer ==
  /\ proc.transport = "open"
  /\ \E req \in AsyncCalls :
       /\ RunOf(req).trace = {}
       /\ Finish(req, RunOf(req))
  /\ UNCHANGED <<os, twin, probe, proc, calls>>

\* A request arrives whose run reaches the await of a filesystem call
AsyncSuspend ==
  /\ proc.transport = "open"
  /\ Len(calls) < MaxInFlight
  /\ \E req \in AsyncCalls :
       /\ RunOf(req).trace # {}
       /\ calls' = Append(calls, req)
  /\ UNCHANGED <<tools, workspaceRoot, enabled, logs, fs, os, request, response,
                 steps, fsTrace, twin, probe, proc>>

\* The i-th suspended run leaves the runs in flight
Resumed(i) ==
  /\ i \in 1..Len(calls)
  /\ calls' = SubSeq(calls, 1, i - 1) \o SubSeq(calls, i + 1, Len(calls))

\* The filesystem call of the i-th suspended run completes and the run goes
\* on to its return
AsyncResumeAt(i) ==
  /\ Resumed(i)
  /\ Finish(calls[i], RunOf(calls[i]))
  /\ UNCHANGED <<os, twin, probe, proc>>

\* The filesystem call of a suspended run completes and the run goes on
AsyncResume == \E i \in 1..MaxInFlight : AsyncResumeAt(i)

\* Time passes on the host, whatever the handlers do
AsyncTick ==
  /\ os.clock < MaxUptime
  /\ os' = [clock |-> os.clock + 1]
  /\ UNCHANGED <<tools, workspaceRoot, enabled, logs, fs, request, response,
                 steps, fsTrace, twin, probe, proc, calls>>

InitAsync ==
  /\ \E env \in {Undefined, Str("true")} : Ready(env)
  /\ twin = NoTwin
  /\ probe = NoProbe

NextAsync == AsyncAnswer \/ AsyncSuspend \/ AsyncResume \/ AsyncTick

SpecAsync == InitAsync /\ [][NextAsync]_vars

\* The same server on a host whose filesystem calls all complete: no awaited
\* readFile, writeFile, readdir or stat stays pending for ever, so every
\* suspended run is resumed. The steps of the server that take the i-th run
\* out of calls are those of AsyncResumeAt(i), which is enabled whenever
\* there is an i-th run
SpecAsyncFair ==
  SpecAsync /\ \A i \in 1..MaxInFlight : WF_calls(Resumed(i))

\* ------------------------------------------------------------------------
\* Two server processes fed the same requests: one started with
\* GOOGLE_ADK_ENABLED=true, the twin with any other environment
\* ------------------------------------------------------------------------

TwinServe(req, h, ht) ==
  /\ Serve(req, h)
  /\ twin' = [srv |-> ht.srv, response |-> ht.response]
  /\ UNCHANGED <<os, probe>>

TwinListTools ==
  TwinServe([method |-> "tools/list"], ListToolsHandler(Server),
            ListToolsHandler(twin.srv))

TwinCallTool ==
  \E name \in RequestedTools : \E args \in CallsOf(name) :
    TwinServe(ToolsCall(name, args), CallToolHandler(Server, os, name, args),
              CallToolHandler(twin.srv, os, name, args))

TwinListResources ==
  TwinServe([method |-> "resources/list"], ListResourcesHandler(Server),
            ListResourcesHandler(twin.srv))

TwinReadResource ==
  \E uri \in RequestedUris :
    TwinServe(ResourcesRead(uri), ReadResourceHandler(Server, os, uri),
              ReadResourceHandler(twin.srv, os, uri))

TwinDeliver ==
  /\ ~Idle
  /\ request' = NoRequest
  /\ response' = NoResponse
  /\ steps' = <<>>
  /\ fsTrace' = {}
  /\ twin' = [twin EXCEPT !.response = NoResponse]
  /\ UNCHANGED <<tools, workspaceRoot, enabled, logs, fs, os, probe, proc, calls>>

InitTwin ==
  /\ Ready(Str("true"))
  /\ \E env \in EnvValues \ {Str("true")} :
       twin = [srv |-> NewServer(env), response |-> NoResponse]
  /\ probe = NoProbe

NextTwin ==
  \/ TwinListTools \/ TwinCallTool \/ TwinListResources \/ TwinReadResource
  \/ TwinDeliver \/ Tick

SpecTwin == InitTwin /\ [][NextTwin]_vars

\* ------------------------------------------------------------------------
\* One call on a freshly started server, its input drawn from a product set
\* ------------------------------------------------------------------------

\* Characters the drawn paths are made of
PathChars == {".", "/", "a"}

RECURSIVE StringsUpTo(_)
StringsUpTo(n) ==
  IF n = 0 THEN {""}
  ELSE StringsUpTo(n - 1) \cup {s \o c : s \in StringsUpTo(n - 1), c \in PathChars}

PathStrings == StringsUpTo(MaxPathLen)

Half == [t |-> "number", v |-> <<1, 2>>]

Operands == {Num(n) : n \in (0 - MaxOperand)..MaxOperand} \cup {Num(6), Num(7), Half}

CalculatorOperations == {"add", "subtract", "multiply", "divide", "modulo"}

ProbeCalculatorCalls ==
  {ToolsCall("calculator", CalcArgs(Str(op), a, b)) :
     op \in CalculatorOperations, a \in Operands, b \in Operands}

ProbeFileCalls ==
  {ToolsCall("file_operations", FileArgs(op, Str(p), c)) :
     op \in {Str(o) : o \in FileOperationNames} \cup {Num(1)},
     p \in PathStrings,
     c \in {Undefined, Str(""), Str("x"), Num(1)}}

\* A schema declaring a boolean, a string with an enum and an object
ProbeSchema ==
  [type |-> "object",
   properties |-> [flag |-> [type |-> "boolean"],
                   label |-> [type |-> "string", enum |-> <<"x", "y">>],
                   options |-> [type |-> "object"]],
   required |-> <<"flag">>]

Schemas == {CalculatorSchema, FileOperationsSchema, SystemInfoSchema, ProbeSchema}

\* Values drawn for one key (Undefined: the key is left out)
ProbeValues == {Undefined, Num(1), Str("s"), Bool(TRUE), Null, Obj(<<>>)}

\* Keys drawn for a schema: the declared ones and one that is not declared
ProbeKeys(schema) ==
  CASE schema = CalculatorSchema -> <<"operation", "a", "b", "extra">>
    [] schema = FileOperationsSchema -> <<"operation", "path", "content", "extra">>
    [] schema = SystemInfoSchema -> <<"detail", "extra">>
    [] OTHER -> <<"flag", "label", "options", "extra">>

Reverse(seq) == [i \in 1..Len(seq) |-> seq[Len(seq) + 1 - i]]

\* The objects over the keys, in both key orders
ProbeObjects(keys) ==
  UNION {{Args([i \in 1..Len(keys) |-> <<keys[i], f[i]>>]),
          Args(Reverse([i \in 1..Len(keys) |-> <<keys[i], f[i]>>]))} :
           f \in [1..Len(keys) -> ProbeValues]}

\* Argument values that are not plain objects
ProbeNonObjects ==
  {Undefined, Null, Num(0), Num(1), Str(""), Str("s"), Bool(FALSE), Bool(TRUE),
   Arr(<<>>), Arr(<<<<"0", Str("s")>>>>)}

ProbeValidations ==
  UNION {{[fn |-> "validateArguments", schema |-> schema, args |-> args, done |-> FALSE] :
            args \in ProbeObjects(ProbeKeys(schema)) \cup ProbeNonObjects} :
         schema \in Schemas}

ProbeSystemInfoCalls ==
  {ToolsCall("system_info", args) :
     args \in {Args(<<>>), Args(<<<<"detail", Str("basic")>>>>),
               Args(<<<<"detail", Str("full")>>>>), Args(<<<<"detail", Num(1)>>>>),
               Args(<<<<"detail", Str("verbose")>>>>), Args(<<<<"detail", Str("")>>>>),
               Args(<<<<"detail", Str("FULL")>>>>), Args(<<<<"detail", Null>>>>),
               Args(<<<<"verbose", Bool(TRUE)>>>>),
               Args(<<<<"detail", Str("full")>>, <<"verbose", Bool(TRUE)>>>>),
               Arr(<<>>)}}

ProbeCalls ==
  {[fn |-> "tools/call", req |-> req, done |-> FALSE] :
     req \in ProbeCalculatorCalls \cup ProbeFileCalls \cup ProbeSystemInfoCalls}

\* The drawn request is sent to the server
ProbeCall ==
  /\ probe.fn = "tools/call"
  /\ ~probe.done
  /\ Serve(probe.req,
           CallToolHandler(Server, os, probe.req.params.name, probe.req.params.arguments))
  /\ probe' = [probe EXCEPT !.done = TRUE]
  /\ UNCHANGED <<os, twin>>

\* validateArguments is applied to the drawn schema and arguments
ProbeValidate ==
  /\ probe.fn = "validateArguments"
  /\ ~probe.done
  /\ probe' = [fn |-> probe.fn, schema |-> probe.schema, args |-> probe.args,
               done |-> TRUE, out |-> validateArguments(probe.schema, probe.args)]
  /\ UNCHANGED <<tools, workspaceRoot, enabled, logs, fs, os, request, response,
                 steps, fsTrace, twin, proc, calls>>

\* Time passes on the host before the drawn request is sent
ProbeTick ==
  /\ ~probe.done
  /\ os.clock < MaxUptime
  /\ os' = [clock |-> os.clock + 1]
  /\ UNCHANGED <<tools, workspaceRoot, enabled, logs, fs, request, response,
                 steps, fsTrace, twin, probe, proc, calls>>

InitProbe ==
  /\ \E env \in {Undefined, Str("true")} : Ready(env)
  /\ twin = NoTwin
  /\ probe \in ProbeCalls \cup ProbeValidations

NextProbe == ProbeCall \/ ProbeValidate \/ ProbeTick

SpecProbe == InitProbe /\ [][NextProbe]_vars

\* ------------------------------------------------------------------------
\* Properties
\* ------------------------------------------------------------------------

IsToolsCall == request.method = "tools/call"

IsCallOf(name) == IsToolsCall /\ request.params.name = name

\* The text of the single content item of a tools/call response
ResponseText == response.content[1].text

\* One text item and the isError marker set
IsErrorResponse ==
  /\ DOMAIN response = {"content", "isError"}
  /\ response.isError = TRUE
  /\ Len(response.content) = 1
  /\ response.content[1].type = "text"

\* One text item and no isError marker
IsSuccessResponse ==
  /\ DOMAIN response = {"content"}
  /\ Len(response.content) = 1
  /\ response.content[1].type = "text"

\* The handler threw instead of returning
Escaped == "thrown" \in DOMAIN response

FailedAt(stepName) ==
  \E i \in 1..Len(steps) : steps[i].step = stepName /\ ~steps[i].ok

FailureMessage(stepName) ==
  steps[CHOOSE i \in 1..Len(steps) : steps[i].step = stepName /\ ~steps[i].ok].message

\* C1: a tools/call naming a registered tool never throws out of the
\* handler; when validation or execute fails, the response is one text item
\* "Error: <message>" with isError true.
C1_ToolFailureIsEnveloped ==
  (IsToolsCall /\ \E i \in 1..Len(tools) : tools[i].name = request.params.name) =>
    /\ ~Escaped
    /\ \A stepName \in {"validate", "execute"} :
         FailedAt(stepName) =>
           /\ IsErrorResponse
           /\ ResponseText = [raw |-> "Error: " \o FailureMessage(stepName)]

\* C1 witness: the divide-by-zero of execute comes back as the envelope
C1_Witness ==
  /\ request = ToolsCall("calculator", CalcArgs(Str("divide"), Num(6), Num(0)))
  /\ FailedAt("execute")
  /\ IsErrorResponse
  /\ ResponseText = [raw |-> "Error: Division by zero is not allowed"]

UnknownToolCall ==
  IsToolsCall /\ \A i \in 1..Len(tools) : tools[i].name # request.params.name

UnknownResourceRead ==
  request.method = "resources/read" /\ request.params.uri # "file:///system-info"

\* C2: a tools/call for an unregistered name and a resources/read for an
\* unknown uri are answered with a normal response carrying isError true,
\* never with an error thrown out of the handler.
C2_DispatchErrorIsEnveloped ==
  (UnknownToolCall \/ UnknownResourceRead) =>
    /\ ~Escaped
    /\ "isError" \in DOMAIN response
    /\ response.isError = TRUE

\* The path argument of the file_operations call being answered
PathArg == Get(request.params.arguments, "path")

UnsafePath(p) == includes(p, "..") \/ startsWith(p, "/")

\* A file_operations call whose operation is a string and whose path is a
\* string containing ".." or starting with "/"
UnsafeFileCall ==
  /\ IsCallOf("file_operations")
  /\ TypeOf(request.params.arguments) = "object"
  /\ TypeOf(Get(request.params.arguments, "operation")) = "string"
  /\ TypeOf(PathArg) = "string"
  /\ UnsafePath(PathArg.v)

PathRejectionText ==
  IF includes(PathArg.v, "..")
    THEN [raw |-> "Error: Path traversal (..) is not allowed"]
    ELSE [raw |-> "Error: Absolute paths are not allowed"]

\* The call was refused without any filesystem call and without effect
RefusedUntouched ==
  /\ IsErrorResponse
  /\ fsTrace = {}
  /\ fs = InitialFs
  /\ logs = <<>>

ContentArg == Get(request.params.arguments, "content")

LexicallyInside(root, target) ==
  /\ target = root \/ startsWith(target, root \o "/")
  /\ \A i \in 1..Len(Split(target)) : Split(target)[i] # ".."

\* C4: the workspace root is the directory captured at construction and
\* never changes; every filesystem call of file_operations is on the root
\* joined with the supplied path, or on an entry of that directory, and
\* lies lexically inside the root.
C4_AccessInsideWorkspaceRoot ==
  /\ workspaceRoot = "/ws"
  /\ fsTrace # {} =>
       /\ IsCallOf("file_operations")
       /\ \E acc \in fsTrace : acc.target = join(workspaceRoot, PathArg.v)
       /\ \A acc \in fsTrace :
            /\ LexicallyInside(workspaceRoot, acc.target)
            /\ \/ acc.target = join(workspaceRoot, PathArg.v)
               \/ /\ acc.op = "stat"
                  /\ startsWith(acc.target, StripSlash(join(workspaceRoot, PathArg.v)) \o "/")

\* C4 witness: listing "." reads the root and stats its entry
C4_Witness ==
  /\ request = ToolsCall("file_operations", FileArgs(Str("list"), Str("."), Undefined))
  /\ fsTrace = {Access("readdir", "/ws"), Access("stat", "/ws/a")}
  /\ Len(logs) > 0

OperationArg == Get(request.params.arguments, "operation")
OperandA == Get(request.params.arguments, "a")
OperandB == Get(request.params.arguments, "b")

NumericOperands ==
  /\ IsCallOf("calculator")
  /\ TypeOf(request.params.arguments) = "object"
  /\ TypeOf(OperandA) = "number"
  /\ TypeOf(OperandB) = "number"

\* C5: a calculator divide whose b is zero always fails with an error,
\* whatever a is, and never returns a success payload.
C5_DivideByZeroFails ==
  (NumericOperands /\ OperationArg = Str("divide") /\ OperandB.v[1] = 0) =>
    /\ IsErrorResponse
    /\ ResponseText = [raw |-> "Error: Division by zero is not allowed"]
    /\ FailedAt("execute")

\* C5 witness: 6 / 0 on a freshly started server
C5_Witness ==
  /\ probe.fn = "tools/call"
  /\ probe.done
  /\ request = ToolsCall("calculator", CalcArgs(Str("divide"), Num(6), Num(0)))
  /\ IsErrorResponse

\* r is the fraction n/d (d not zero)
IsQuotient(r, n, d) ==
  /\ r.t = "number"
  /\ r.v[2] > 0
  /\ r.v[1] * d = n * r.v[2]
  /\ Gcd(Abs(r.v[1]), r.v[2]) = 1

\* The arithmetic value of operation on a and b
IsValueOf(r, operation, a, b) ==
  CASE operation = "add" ->
         IsQuotient(r, a.v[1] * b.v[2] + b.v[1] * a.v[2], a.v[2] * b.v[2])
    [] operation = "subtract" ->
         IsQuotient(r, a.v[1] * b.v[2] - b.v[1] * a.v[2], a.v[2] * b.v[2])
    [] operation = "multiply" ->
         IsQuotient(r, a.v[1] * b.v[1], a.v[2] * b.v[2])
    [] operation = "divide" ->
         IsQuotient(r, a.v[1] * b.v[2], a.v[2] * b.v[1])

\* C6: for add, subtract, multiply and divide on numeric operands (b not
\* zero under divide) the call succeeds and the payload echoes the
\* operation and both operands with result a+b, a-b, a*b or a/b.
C6_CalculatorResult ==
  (/\ NumericOperands
   /\ OperationArg \in {Str("add"), Str("subtract"), Str("multiply"), Str("divide")}
   /\ ~(OperationArg = Str("divide") /\ OperandB.v[1] = 0)) =>
    /\ IsSuccessResponse
    /\ DOMAIN ResponseText = {"json"}
    /\ ResponseText.json.success = TRUE
    /\ ResponseText.json.data.operation = OperationArg
    /\ ResponseText.json.data.operands = [a |-> OperandA, b |-> OperandB]
    /\ IsValueOf(ResponseText.json.data.result, OperationArg.v, OperandA, OperandB)

\* C6 witness: 6 x 7 = 42
C6_Witness ==
  /\ probe.fn = "tools/call"
  /\ probe.done
  /\ request = ToolsCall("calculator", CalcArgs(Str("multiply"), Num(6), Num(7)))
  /\ ResponseText.json.data =
       [operation |-> Str("multiply"),
        operands |-> [a |-> Num(6), b |-> Num(7)],
        result |-> Num(42)]

\* (i) absent (undefined, null) or not of typeof "object"
NotAnObject(args) ==
  args.t \in {"undefined", "null", "number", "string", "boolean"}

\* (ii) a required name that is not a key
MissingRequired(schema, args) ==
  \E i \in 1..Len(schema.required) :
    \A j \in 1..Len(args.v) : args.v[j][1] # schema.required[i]

\* (iii) a supplied key declared number, string or boolean whose value has
\* another runtime type
Mistyped(schema, args) ==
  \E j \in 1..Len(args.v) :
    /\ args.v[j][1] \in DOMAIN schema.properties
    /\ schema.properties[args.v[j][1]].type \in {"number", "string", "boolean"}
    /\ TypeOf(args.v[j][2]) # schema.properties[args.v[j][1]].type

ValidationDone == probe.fn = "validateArguments" /\ probe.done

\* C7: validateArguments rejects exactly when the arguments are absent or
\* not an object, or a required name is missing, or a supplied key declared
\* number, string or boolean has another runtime type; undeclared keys and
\* keys declared with another type pass unchecked.
C7_ValidationRejectsExactly ==
  ValidationDone =>
    (probe.out.threw <=>
       \/ NotAnObject(probe.args)
       \/ MissingRequired(probe.schema, probe.args)
       \/ Mistyped(probe.schema, probe.args))

\* C7 witness: a key declared "object" holding a number, an undeclared
\* key and a string outside its enum all pass
C7_Witness ==
  /\ ValidationDone
  /\ probe.schema = ProbeSchema
  /\ probe.args.t = "object"
  /\ Get(probe.args, "flag") = Bool(TRUE)
  /\ Get(probe.args, "label") = Str("s")
  /\ Get(probe.args, "options") = Num(1)
  /\ Get(probe.args, "extra") = Num(1)
  /\ ~probe.out.threw

ToolNames(list) == [i \in 1..Len(list) |-> list[i].name]

\* C8: the registry always holds calculator, file_operations, system_info
\* in that order, and every tools/list returns exactly those three
\* definitions, each with name, description and inputSchema.
C8_ToolListIsFixed ==
  /\ ToolNames(tools) = <<"calculator", "file_operations", "system_info">>
  /\ request.method = "tools/list" =>
       /\ DOMAIN response = {"tools"}
       /\ ToolNames(response.tools) = <<"calculator", "file_operations", "system_info">>
       /\ \A i \in 1..Len(response.tools) :
            DOMAIN response.tools[i] = {"name", "description", "inputSchema"}
       /\ response.tools[1].inputSchema = CalculatorSchema
       /\ response.tools[2].inputSchema = FileOperationsSchema
       /\ response.tools[3].inputSchema = SystemInfoSchema

\* C8 witness: a tools/list answered after tool calls have succeeded and
\* the workspace has been written to
C8_Witness ==
  /\ request.method = "tools/list"
  /\ Len(response.tools) = 3
  /\ Len(logs) = MaxLogs
  /\ fs # InitialFs

SucceededAt(stepName) ==
  \E i \in 1..Len(steps) : steps[i].step = stepName /\ steps[i].ok

\* C9: once the tool has executed successfully, a failure of logToolUsage
\* leaves the response unchanged: the success content, without isError.
C9_RecorderFailureIsIgnored ==
  (IsToolsCall /\ SucceededAt("execute") /\ FailedAt("record")) =>
    /\ IsSuccessResponse
    /\ DOMAIN ResponseText = {"json"}

\* C10: the server started with GOOGLE_ADK_ENABLED=true and the server
\* started with any other environment give the same response to every
\* request of the same sequence.
C10_FlagDoesNotChangeResponses ==
  (enabled /\ ~twin.srv.enabled) => response = twin.response

\* C10 witness: both servers have answered a tool call with the same
\* success content, after earlier calls
C10_Witness ==
  /\ enabled
  /\ ~twin.srv.enabled
  /\ IsToolsCall
  /\ IsSuccessResponse
  /\ twin.response = response
  /\ Len(logs) = MaxLogs

\* A request was handed to its handler in this step
Handling == Idle /\ ~Idle'

\* The entry is the one the answered tools/call leaves in the log
IsEntryOf(entry, req, resp) ==
  /\ entry.toolName = req.params.name
  /\ entry.arguments = req.params.arguments
  /\ [json |-> entry.result] = resp.content[1].text

\* Existing entries stay where and what they are
LogKept == Len(logs') >= Len(logs) /\ SubSeq(logs', 1, Len(logs)) = logs

\* Exactly one entry, that of the call just answered, was appended
OneEntryAppended ==
  /\ Len(logs') = Len(logs) + 1
  /\ IsEntryOf(logs'[Len(logs')], request', response')

Wrote(line) == \E i \in 1..Len(proc.stderr) : proc.stderr[i] = line

\* C13: the process exits with code 0 only from the SIGINT handler and only
\* once the transport has been closed, and an interrupted process whose
\* connect did not fail exits with no other code; when connect rejects, the
\* process exits with a non-zero code, the cause being the last line written
\* to standard error; "started and ready" is written only after connect has
\* resolved.
C13_OrderlyExit ==
  /\ proc.exitCode = 0 => (proc.closing /\ proc.transport = "closed")
  /\ (proc.phase = "exited" /\ proc.closing /\ proc.connect # "rejected") =>
       proc.exitCode = 0
  /\ proc.connect = "rejected" =>
       /\ proc.phase = "exited"
       /\ proc.exitCode \notin {NoExit, 0}
       /\ \E cause \in ConnectFaults :
            proc.stderr[Len(proc.stderr)] = "Failed to start server: " \o cause
  /\ Wrote("MCP Server Demo started and ready") => proc.connect = "resolved"

\* C13 witness: a server that had started and answered calls was
\* interrupted, closed its transport and exited with code 0
C13_Witness ==
  /\ proc.phase = "exited"
  /\ proc.exitCode = 0
  /\ proc.transport = "closed"
  /\ Wrote("MCP Server Demo started and ready")
  /\ Len(logs) > 0

\* The system information carried by a resources/read response
ReadInfo == response.contents[1].text.json

\* C14: resources/list returns exactly one descriptor, with uri
\* file:///system-info and MIME type application/json; resources/read of that
\* uri returns one content item with the same uri and MIME type whose text is
\* the JSON of a system_info result at basic detail (platform, architecture,
\* uptime, memory total/free/used, no cpus) whose uptime is the host's uptime
\* at the time of the read.
C14_ResourceListAndRead ==
  /\ request.method = "resources/list" =>
       /\ DOMAIN response = {"resources"}
       /\ Len(response.resources) = 1
       /\ response.resources[1].uri = "file:///system-info"
       /\ response.resources[1].mimeType = "application/json"
  /\ (request.method = "resources/read"
        /\ request.params.uri = "file:///system-info") =>
       /\ DOMAIN response = {"contents"}
       /\ Len(response.contents) = 1
       /\ response.contents[1].uri = "file:///system-info"
       /\ response.contents[1].mimeType = "application/json"
       /\ DOMAIN response.contents[1].text = {"json"}
       /\ ReadInfo.success = TRUE
       /\ DOMAIN ReadInfo.data = {"platform", "architecture", "uptime", "memory"}
       /\ DOMAIN ReadInfo.data.memory = {"total", "free", "used"}
       /\ ReadInfo.data.uptime = Num(os.clock)
       /\ ReadInfo.data.memory.total = Num(RoundMB(TotalMemBytes))
       /\ ReadInfo.data.memory.free = Num(RoundMB(FreeMemBytes))

\* C14 witness: a read made after time has passed and calls were answered
\* carries the uptime of that moment
C14_Witness ==
  /\ request.method = "resources/read"
  /\ request.params.uri = "file:///system-info"
  /\ os.clock > 0
  /\ ReadInfo.data.uptime = Num(os.clock)
  /\ Len(logs) > 0

\* C15: only one tool call is serviced at a time: no tools/call begins
\* while an earlier one is suspended awaiting I/O, so two runs of the
\* handler are never in flight together.
C15_OneCallAtATime == Len(calls) <= 1

\* The order in which the tools/call handler takes its steps
StepOrder == <<"lookup", "validate", "execute", "record">>

\* C16: within one tools/call the steps taken are an initial part of
\* lookup, validate, execute, record, each taken only when all before it
\* succeeded: execute is not invoked (and no filesystem call is made) when
\* validation failed, the recorder is not notified when validation or
\* execution failed, and a success response comes only after execute and
\* the recorder notification have both finished.
C16_StepsInOrder ==
  IsToolsCall =>
    /\ Len(steps) \in 1..Len(StepOrder)
    /\ \A i \in 1..Len(steps) : steps[i].step = StepOrder[i]
    /\ \A i \in 1..(Len(steps) - 1) : steps[i].ok
    /\ (FailedAt("lookup") \/ FailedAt("validate")) => fsTrace = {}
    /\ IsSuccessResponse =>
         /\ Len(steps) = Len(StepOrder)
         /\ \A i \in 1..Len(steps) : steps[i].ok
    /\ (~Escaped /\ ~IsSuccessResponse) => (IsErrorResponse /\ ~steps[Len(steps)].ok)

\* C16 witness: a write went through all four steps and was answered with
\* the success content after the file was written
C16_Witness ==
  /\ request = ToolsCall("file_operations", FileArgs(Str("write"), Str("a/a"), Str("x")))
  /\ Len(steps) = 4
  /\ SucceededAt("record")
  /\ IsSuccessResponse
  /\ fsTrace # {}
  /\ fs["/ws/a/a"].content = "x"

\* One call has been made on the freshly started server
ProbeCalled == probe.fn = "tools/call" /\ probe.done

\* The paths whose node is not what it was at start-up
ChangedPaths ==
  {p \in DOMAIN fs \cup DOMAIN InitialFs :
     p \notin DOMAIN fs \/ p \notin DOMAIN InitialFs \/ fs[p] # InitialFs[p]}

\* C17: the filesystem is changed only by a file_operations write with an
\* accepted path and a non-empty string content, which succeeds and creates
\* or overwrites one file through one writeFile call; read, list, info and
\* every other call leave it as it was, and a write whose content is
\* missing or the empty string is answered with an error without any
\* filesystem call.
C17_OnlyWriteChangesFiles ==
  ProbeCalled =>
    /\ fs # InitialFs =>
         /\ IsCallOf("file_operations")
         /\ OperationArg = Str("write")
         /\ ~UnsafePath(PathArg.v)
         /\ TypeOf(ContentArg) = "string"
         /\ ContentArg.v # ""
         /\ IsSuccessResponse
         /\ fsTrace = {Access("writeFile", join(workspaceRoot, PathArg.v))}
         /\ Cardinality(ChangedPaths) = 1
         /\ \A p \in ChangedPaths : fs[p].kind = "file" /\ fs[p].content = ContentArg.v
    /\ (IsCallOf("file_operations") /\ OperationArg = Str("write")
          /\ ContentArg \in {Undefined, Str("")}) =>
         /\ IsErrorResponse
         /\ fs = InitialFs
         /\ fsTrace = {}

\* C17 witness: a write with content created a file that was not there
C17_Witness ==
  /\ ProbeCalled
  /\ request = ToolsCall("file_operations", FileArgs(Str("write"), Str("aa"), Str("x")))
  /\ IsSuccessResponse
  /\ "/ws/aa" \notin DOMAIN InitialFs
  /\ fs["/ws/aa"].content = "x"

\* C18: while the integration is disabled, tool calls leave the recorder's
\* in-memory list as it was at construction (empty); only the enabled
\* integration appends to it.
C18_InertWhenDisabled == ~enabled => logs = <<>>

\* A file_operations call with valid arguments and an accepted path whose
\* execute failed (the filesystem is then as it was before the call)
FileFailure ==
  /\ IsCallOf("file_operations")
  /\ SucceededAt("validate")
  /\ FailedAt("execute")
  /\ ~UnsafePath(PathArg.v)

\* The segments of the resolved target of the call
TargetSegs == NormSegs(Split(StripSlash(join(workspaceRoot, PathArg.v))), <<>>, FALSE)

\* Among the first n segments of the target there is one with no entry in
\* the filesystem, everything before it being a directory
NoSuchEntry(n) ==
  \E k \in 1..n :
    /\ PrefixPath(TargetSegs, k) \notin DOMAIN fs
    /\ \A j \in 0..(k - 1) :
         /\ PrefixPath(TargetSegs, j) \in DOMAIN fs
         /\ fs[PrefixPath(TargetSegs, j)].kind = "dir"

\* The operation looked its target up and the target is missing: for
\* read, list and info the target itself or a directory on the way to it,
\* for a write with content a directory on the way to it
TargetMissing ==
  \/ OperationArg \in {Str("read"), Str("list"), Str("info")}
       /\ NoSuchEntry(Len(TargetSegs))
  \/ OperationArg = Str("write") /\ Truthy(ContentArg)
       /\ NoSuchEntry(Len(TargetSegs) - 1)

\* What the operation itself raised when the target is not missing
RaisedMessage ==
  CASE OperationArg = Str("read") -> readFile(fs, join(workspaceRoot, PathArg.v)).message
    [] OperationArg = Str("list") -> readdir(fs, join(workspaceRoot, PathArg.v)).message
    [] OperationArg = Str("info") -> stat(fs, join(workspaceRoot, PathArg.v)).message
    [] OperationArg = Str("write") ->
         IF Truthy(ContentArg)
           THEN writeFile(fs, join(workspaceRoot, PathArg.v), ContentArg.v, os.clock).out.message
           ELSE "Content is required for write operation"
    [] OTHER -> "Unknown operation: " \o OperationArg.v

\* C19: when a file operation on an accepted path fails because its target
\* is missing, the error is "File or directory not found: " followed by the
\* path exactly as the caller supplied it; every other failure of the
\* operation (another filesystem fault, missing write content, unknown
\* operation) is reported with the message it was raised with.
C19_NotFoundNamesCallerPath ==
  FileFailure =>
    /\ IsErrorResponse
    /\ IF TargetMissing
         THEN ResponseText = [raw |-> "Error: File or directory not found: " \o PathArg.v]
         ELSE /\ ResponseText = [raw |-> "Error: " \o RaisedMessage]
              /\ ~startsWith(RaisedMessage, "File or directory not found")
              /\ ~startsWith(RaisedMessage, "ENOENT")

\* C19 witness: reading the missing ./zz is answered with the path as
\* supplied, not with /ws/zz
C19_Witness ==
  /\ request = ToolsCall("file_operations", FileArgs(Str("read"), Str("./zz"), Undefined))
  /\ FileFailure
  /\ TargetMissing
  /\ join(workspaceRoot, PathArg.v) = "/ws/zz"
  /\ ResponseText = [raw |-> "Error: File or directory not found: ./zz"]

\* The operation values the called tool declares in its schema
DeclaredOperations ==
  LET enum == tools[ToolIndex(tools, request.params.name)]
                .inputSchema.properties.operation.enum
  IN  {enum[i] : i \in 1..Len(enum)}

\* The arguments other than the operation are such as the tool accepts
OtherArgumentsAccepted ==
  \/ IsCallOf("calculator") /\ NumericOperands
  \/ /\ IsCallOf("file_operations")
     /\ TypeOf(PathArg) = "string"
     /\ ~UnsafePath(PathArg.v)
     /\ TypeOf(ContentArg) \in {"undefined", "string"}

\* A call of calculator or file_operations whose operation is a string
\* outside the declared set, its other arguments being acceptable
UndeclaredOperationCall ==
  /\ ProbeCalled
  /\ OtherArgumentsAccepted
  /\ TypeOf(OperationArg) = "string"
  /\ OperationArg.v \notin DeclaredOperations

\* C20: a string operation outside the tool's declared set passes
\* validation and then fails inside execute with "Unknown operation: "
\* followed by the value, for calculator and file_operations alike; the
\* response is the error envelope, never a success payload, and no
\* filesystem call is made.
C20_UnknownOperationFails ==
  UndeclaredOperationCall =>
    /\ SucceededAt("validate")
    /\ FailedAt("execute")
    /\ IsErrorResponse
    /\ ResponseText = [raw |-> "Error: Unknown operation: " \o OperationArg.v]
    /\ fsTrace = {}
    /\ fs = InitialFs
    /\ logs = <<>>

\* C20 witness: file_operations was asked to delete an existing file
C20_Witness ==
  /\ UndeclaredOperationCall
  /\ request = ToolsCall("file_operations", FileArgs(Str("delete"), Str("a/a"), Undefined))
  /\ ResponseText = [raw |-> "Error: Unknown operation: delete"]
  /\ fs = InitialFs

\* ------------------------------------------------------------------------
\* Every tools/call is answered, once, by a well-formed response
\* ------------------------------------------------------------------------

\* The response is one of the two forms the handler returns: the success
\* content or the isError envelope
WellFormedResponse == IsSuccessResponse \/ IsErrorResponse

\* A run of the handler on req is suspended at a filesystem call
InFlight(req) == \E i \in 1..Len(calls) : calls[i] = req

\* Whatever the handler hands back for a tools/call is well formed
AnsweredWellFormed == [](IsToolsCall => WellFormedResponse)

\* No suspended run is left unanswered
SuspendedCallsAnswered ==
  \A req \in AsyncCalls :
    InFlight(req) ~> (request = req /\ WellFormedResponse)

\* A run that ends answers its own request and leaves the runs in flight,
\* it alone: no run answers twice, none is dropped without an answer
AnsweredOnce ==
  [][\A i \in 1..Len(calls) :
       Resumed(i) => request' = calls[i] /\ response' = RunOf(calls[i]).response]_vars

\* C21: every tools/call request received while the server is running
\* eventually receives exactly one well-formed response, the success content
\* or the isError envelope, provided the tool's filesystem calls complete:
\* no request is left unanswered and none is answered twice.
C21_EveryCallAnsweredOnce ==
  /\ AnsweredWellFormed
  /\ SuspendedCallsAnswered
  /\ AnsweredOnce

\* ------------------------------------------------------------------------
\* system_info by its detail argument
\* ------------------------------------------------------------------------

\* The detail argument of the call being answered, undefined when omitted
DetailArg == Get(request.params.arguments, "detail")

\* The data of a system_info result carried by the response
SystemInfoData == ResponseText.json.data

\* What a call with detail "basic" returns at this moment
BasicNow == SystemInfoExecute(Args(<<<<"detail", Str("basic")>>>>), os).value.data

BasicFields == {"platform", "architecture", "uptime", "memory"}

MemoryFields == {"total", "free", "used"}

CpuFields == {"count", "model", "speed"}

\* The shape of a system_info result: its fields, those of memory and of
\* cpus, and the JSON type of every leaf
ShapeOf(data) ==
  [fields |-> DOMAIN data,
   leaves |-> [k \in DOMAIN data \ {"memory", "cpus"} |-> data[k].t],
   memory |-> [k \in DOMAIN data.memory |-> data.memory[k].t],
   cpus |-> IF "cpus" \in DOMAIN data
              THEN [k \in DOMAIN data.cpus |-> data.cpus[k].t]
              ELSE <<>>]

\* A system_info call whose arguments passed validation has been answered
SystemInfoAnswered ==
  ProbeCalled /\ IsCallOf("system_info") /\ SucceededAt("validate")

\* C22: system_info never fails for an arguments object that passes
\* validation; an omitted detail, and any string other than "full", gives
\* exactly the result of detail "basic"; detail "full" gives every basic
\* field (platform, architecture, uptime, memory total/free/used) plus cpus
\* (count, model, speed); and a call with the same detail at any other
\* moment returns a result of the same shape.
C22_SystemInfoByDetail ==
  SystemInfoAnswered =>
    /\ SucceededAt("execute")
    /\ IsSuccessResponse
    /\ DOMAIN ResponseText = {"json"}
    /\ ResponseText.json.success = TRUE
    /\ DOMAIN BasicNow = BasicFields
    /\ DOMAIN SystemInfoData.memory = MemoryFields
    /\ DetailArg # Str("full") => SystemInfoData = BasicNow
    /\ DetailArg = Str("full") =>
         /\ DOMAIN SystemInfoData = BasicFields \cup {"cpus"}
         /\ \A k \in BasicFields : SystemInfoData[k] = BasicNow[k]
         /\ DOMAIN SystemInfoData.cpus = CpuFields
         /\ SystemInfoData.cpus.count = Num(Len(CpuList))
    /\ \A c \in 0..MaxUptime :
         ShapeOf(SystemInfoExecute(request.params.arguments, [clock |-> c]).value.data)
           = ShapeOf(SystemInfoData)

\* C22 witness: a call that omits detail is answered, after time has passed
\* on the host, with the basic result of that moment
C22_Witness ==
  /\ SystemInfoAnswered
  /\ DetailArg = Undefined
  /\ os.clock > 0
  /\ SystemInfoData.uptime = Num(os.clock)
  /\ "cpus" \notin DOMAIN SystemInfoData

====
